---- MODULE Spec2Model ----
(***************************************************************************)
(* Model of src/python/dataset.py: the segment-aware cross-validator, the   *)
(* dataset splitter, the interictal/preictal merger with downsampling, the  *)
(* standardizer, the frame builders and the feature loader with its on-disk *)
(* cache, run alone and as two invocations at once.                         *)
(*                                                                          *)
(* A data frame is a sequence of rows.  A row of a dataset table is a       *)
(* record [segment, frame, Preictal]: the two levels of the row MultiIndex  *)
(* and the class label column.  Segment names are integers ordered as the   *)
(* names sort.  Row positions ('i', iloc) are 0-based as in the source.     *)
(* A row of a loaded feature table is a record [segment, frame, values],    *)
(* values being the feature columns of the frame.  The cache maps every     *)
(* cache file name to the pickled table it holds, or to NoEntry.            *)
(*                                                                          *)
(* The module is Python 3 (keyword-only arguments at dataset.py:75), so     *)
(* "/" is true division.                                                    *)
(***************************************************************************)
EXTENDS Integers, Sequences, FiniteSets, TLC

VARIABLES args, cv, result, cache, loader, invocations

vars == <<args, cv, result, cache, loader, invocations>>

\* ------------------------------------------------------------------ bounds
\* Segments of an arbitrary small table.
MaxSegs == 3
\* Rows (frames) of one segment.
MaxRows == 2
\* Segments per class of a uniform table (every segment the same row count).
MaxPerClass == 6
\* Largest n_folds passed to the cross-validator directly.
MaxFolds == 6
\* Rows of a table whose rows name their segments in any order.
MaxScattered == 3
\* Segments of the interictal table and of the preictal table of a merge.
MaxMergeSegs == 2
\* Windows of a table to be framed; frame lengths run over 1..MaxWindows.
MaxWindows == 13
\* Features of one window.
MaxWidth == 2
\* Descriptors (segments) of a direct rebuild_features call.
MaxLoadSegs == 2

\* ----------------------------------------------------------------- helpers
Min(S) == CHOOSE x \in S : \A y \in S : x <= y

Max(S) == CHOOSE x \in S : \A y \in S : x >= y

Range(s) == {s[i] : i \in DOMAIN s}

RECURSIVE SortedSeq(_)
\* The elements of a finite set of integers in increasing order.
SortedSeq(S) == IF S = {} THEN <<>> ELSE <<Min(S)>> \o SortedSeq(S \ {Min(S)})

RECURSIVE ConcatAll(_)
\* pd.concat along the row axis of a sequence of frames.
ConcatAll(ss) == IF ss = <<>> THEN <<>> ELSE Head(ss) \o ConcatAll(Tail(ss))

\* ------------------------------------------------------------------ tables
\* The rows of one segment: n frames 0..n-1 of segment s, all labelled c.
SegmentRows(s, n, c) == [f \in 1..n |-> [segment |-> s, frame |-> f - 1, Preictal |-> c]]

\* A table from per-segment descriptions d[s] = <<rows, label>>, segment
\* names base+1 .. base+Len(d), rows sorted by (segment, frame).
MkTable(d, base) == ConcatAll([s \in DOMAIN d |-> SegmentRows(base + s, d[s][1], d[s][2])])

\* c0 class-0 segments followed by c1 class-1 segments, r rows each: the
\* layout of test_k_fold_segment_split.
UniformDesc(c0, c1, r) == [s \in 1..(c0 + c1) |-> <<r, IF s <= c0 THEN 0 ELSE 1>>]

SmallTables ==
    {MkTable(d, 0) : d \in UNION {[1..ns -> (1..MaxRows) \X {0, 1}] : ns \in 0..MaxSegs}}

UniformTables ==
    {MkTable(UniformDesc(c0, c1, r), 0) : c0 \in 0..MaxPerClass, c1 \in 0..MaxPerClass, r \in 1..MaxRows}

Tables == SmallTables \cup UniformTables

\* Rows that name their segment (1..MaxSegs) and label in any order, the
\* frame of a row being the number of earlier rows of its segment: segments
\* need not be contiguous nor of one label.
Scattered(d) ==
    [i \in DOMAIN d |->
        [segment |-> d[i][1],
         frame |-> Cardinality({j \in 1..(i - 1) : d[j][1] = d[i][1]}),
         Preictal |-> d[i][2]]]

ScatteredTables ==
    {Scattered(d) : d \in UNION {[1..n -> (1..MaxSegs) \X {0, 1}] : n \in 0..MaxScattered}}

SegmentIds(t) == {t[i].segment : i \in DOMAIN t}

RowsOfSegment(t, s) == {i \in DOMAIN t : t[i].segment = s}

\* -------------------------------------------------- sklearn StratifiedKFold
\* cross_validation.StratifiedKFold(y, n_folds=k, shuffle=False) as called at
\* dataset.py:35 and :231.  The algorithm is the library's (scikit-learn
\* 0.15 .. 0.19, the releases that have both the cross_validation module
\* and the shuffle keyword the source passes): n_folds <= 1 and
\* n_folds > len(y) are rejected with ValueError; a class with fewer than
\* n_folds members only warns.  Every class is cut by
\* KFold(max(count, n_folds), n_folds) into contiguous runs of its members
\* in order of appearance, the first (m % k) runs one longer.

\* Size of fold f (0-based) of KFold(m, k).
KFoldSize(m, k, f) == (m \div k) + (IF f < m % k THEN 1 ELSE 0)

RECURSIVE KFoldStart(_, _, _)
\* First index (0-based) of fold f of KFold(m, k).
KFoldStart(m, k, f) == IF f = 0 THEN 0 ELSE KFoldStart(m, k, f - 1) + KFoldSize(m, k, f - 1)

\* The fold of KFold(m, k) whose test split holds index p (0 <= p < m).
KFoldOf(m, k, p) ==
    CHOOSE f \in 0..(k - 1) : KFoldStart(m, k, f) <= p /\ p < KFoldStart(m, k, f) + KFoldSize(m, k, f)

\* y is the sequence of class labels.  Result: ok = FALSE when construction
\* raises; otherwise test_folds[j] is the fold that holds sample j out.
StratifiedKFold(y, k) ==
    IF k <= 1 \/ k > Len(y)
    THEN [ok |-> FALSE, n_folds |-> k, test_folds |-> <<>>]
    ELSE LET count(l) == Cardinality({j \in DOMAIN y : y[j] = l})
             rank(j) == Cardinality({i \in 1..(j - 1) : y[i] = y[j]})
         IN  [ok |-> TRUE,
              n_folds |-> k,
              test_folds |-> [j \in DOMAIN y |-> KFoldOf(Max({count(y[j]), k}), k, rank(j))]]

\* _iter_test_masks / __iter__: fold f as (train, test) 0-based index arrays.
KFoldTest(skf, f) == SortedSeq({j - 1 : j \in {i \in DOMAIN skf.test_folds : skf.test_folds[i] = f}})

KFoldTrain(skf, f) == SortedSeq({j - 1 : j \in {i \in DOMAIN skf.test_folds : skf.test_folds[i] # f}})

\* len(cv) of the library generator.
KFoldLen(skf) == skf.n_folds

\* ---------------------------------------------------- SegmentCrossValidator
\* A slip: a segment labelled by its last row.
GroupBySegmentLast(t) ==
    LET ids == SortedSeq(SegmentIds(t))
    IN  [j \in DOMAIN ids |->
            [segment |-> ids[j], Preictal |-> t[Max(RowsOfSegment(t, ids[j]))].Preictal]]

\* groupby(level='segment').first(): one entry per distinct segment, sorted
\* by segment name, labelled by the first row met for that segment.
GroupBySegmentFirst(t) ==
    LET ids == SortedSeq(SegmentIds(t))
    IN  [j \in DOMAIN ids |->
            [segment |-> ids[j], Preictal |-> t[Min(RowsOfSegment(t, ids[j]))].Preictal]]

\* The state of a validator that does not exist (before construction, or
\* after __init__ raised).
NoValidator(st) ==
    [state |-> st, all_segments |-> <<>>, segments |-> <<>>,
     cv |-> [ok |-> FALSE, n_folds |-> 0, test_folds |-> <<>>], pos |-> 0, folds |-> <<>>]

\* A slip: the error of the wrapped generator swallowed, leaving a
\* validator that yields nothing.
NewValidatorMasked(t, k) ==
    LET segments == GroupBySegmentFirst(t)
        skf == StratifiedKFold([j \in DOMAIN segments |-> segments[j].Preictal], k)
    IN  IF skf.ok
        THEN [state |-> "ready", all_segments |-> t, segments |-> segments,
              cv |-> skf, pos |-> 0, folds |-> <<>>]
        ELSE NoValidator("ready")

\* SegmentCrossValidator(dataframe, n_folds=k): all_segments is the frame
\* (row position = 'i' + 1), segments the per-segment series, cv the wrapped
\* StratifiedKFold.  pos counts the folds the running iteration has
\* yielded, folds keeps them.
NewValidator(t, k) ==
    LET segments == GroupBySegmentFirst(t)
        skf == StratifiedKFold([j \in DOMAIN segments |-> segments[j].Preictal], k)
    IN  IF skf.ok
        THEN [state |-> "ready", all_segments |-> t, segments |-> segments,
              cv |-> skf, pos |-> 0, folds |-> <<>>]
        ELSE NoValidator("failed")

\* self.segments[indices].index: the segment names at the given 0-based
\* positions of the per-segment series.
SegmentNames(val, indices) == [j \in DOMAIN indices |-> val.segments[indices[j] + 1].segment]

\* A slip: one row per segment instead of all of its rows.
RowIndicesFirstOnly(val, names) ==
    [j \in DOMAIN names |-> Min(RowsOfSegment(val.all_segments, names[j])) - 1]

\* A slip: the positions of the names in the per-segment table instead of
\* the positions of their rows in the input table.
RowIndicesInSegments(val, names) ==
    [j \in DOMAIN names |->
        (CHOOSE s \in DOMAIN val.segments : val.segments[s].segment = names[j]) - 1]

\* self.all_segments.loc[names].index.get_level_values('i'): the 'i' values
\* of every row whose segment is one of names.
RowIndicesOf(val, names) ==
    ConcatAll([j \in DOMAIN names |->
                  SortedSeq({i - 1 : i \in RowsOfSegment(val.all_segments, names[j])})])

\* A slip: the held-out side looked up with the training indices.
SegmentFoldSameIndices(val, f) ==
    [train |-> RowIndicesOf(val, SegmentNames(val, KFoldTrain(val.cv, f))),
     test |-> RowIndicesOf(val, SegmentNames(val, KFoldTrain(val.cv, f)))]

\* One pass of the loop body of __iter__ for fold f of the wrapped generator.
SegmentFold(val, f) ==
    [train |-> RowIndicesOf(val, SegmentNames(val, KFoldTrain(val.cv, f))),
     test |-> RowIndicesOf(val, SegmentNames(val, KFoldTest(val.cv, f)))]

\* A slip: the number of segments instead of the number of folds.
ValidatorLenSegments(val) == Len(val.segments)

\* __len__
ValidatorLen(val) == KFoldLen(val.cv)

\* ------------------------------------------------------------ split_dataset
\* training_ratio in hundredths.
RatioNums == {-50, 0, 1, 25, 30, 49, 50, 60, 70, 75, 80, 90, 95, 100, 120, 150}

\* The hundredths r in -1.00 .. 2.00 at which the IEEE double 1/(1 - r)
\* falls just below the integer the exact quotient is (0.95 gives
\* 19.999999999999982), so that np.floor returns one less.
DoubleQuotientBelow == {95, 96, 98, 99, 120}

\* A slip: the quotient rounded up.
FoldCountCeil(num) ==
    LET den == 100 - num
    IN  IF den = 0 THEN [ok |-> FALSE, k |-> 0]
        ELSE IF den > 0 THEN [ok |-> TRUE, k |-> (100 + den - 1) \div den]
        ELSE [ok |-> TRUE, k |-> 0 - (100 \div (0 - den))]

\* A slip: the fold count silently raised to the smallest one accepted.
FoldCountClamped(num) ==
    LET den == 100 - num
        exact == IF den > 0 THEN 100 \div den ELSE 0 - ((100 + (0 - den) - 1) \div (0 - den))
    IN  IF den = 0 THEN [ok |-> FALSE, k |-> 0] ELSE [ok |-> TRUE, k |-> Max({exact, 2})]

\* A slip: the quotient rounded to the nearest integer.
FoldCountRounded(num) ==
    LET den == 100 - num
        exact == IF den > 0 THEN (200 + den) \div (2 * den) ELSE 0 - ((100 + (0 - den) - 1) \div (0 - den))
    IN  IF den = 0 THEN [ok |-> FALSE, k |-> 0] ELSE [ok |-> TRUE, k |-> exact]

\* k = int(np.floor(1/(1 - training_ratio))); ok = FALSE on the
\* ZeroDivisionError of training_ratio = 1.
FoldCount(num) ==
    LET den == 100 - num
        exact == IF den > 0 THEN 100 \div den ELSE 0 - ((100 + (0 - den) - 1) \div (0 - den))
    IN  IF den = 0
        THEN [ok |-> FALSE, k |-> 0]
        ELSE [ok |-> TRUE, k |-> IF num \in DoubleQuotientBelow THEN exact - 1 ELSE exact]

\* The folds iterating a validator yields, in order.
ValidatorFolds(val) == [f \in 1..ValidatorLen(val) |-> SegmentFold(val, f - 1)]

\* The folds iterating the plain StratifiedKFold yields, in order.
KFoldFolds(skf) == [f \in 1..KFoldLen(skf) |-> [train |-> KFoldTrain(skf, f - 1), test |-> KFoldTest(skf, f - 1)]]

\* A slip: the last element.
FirstIsLast(iterable) == iterable[Len(iterable)]

\* first(iterable): returns from inside the loop at its first element.
First(iterable) == iterable[1]

\* dataframe.iloc[indices]
ILoc(t, indices) == [j \in DOMAIN indices |-> t[indices[j] + 1]]

SplitError == [status |-> "error", k |-> 0, train |-> <<>>, test |-> <<>>]

\* split_dataset(dataframe, training_ratio, do_segment_split, shuffle=False)
split_dataset(t, num, do_segment_split) ==
    LET fc == FoldCount(num)
        val == NewValidator(t, fc.k)
        skf == StratifiedKFold([i \in DOMAIN t |-> t[i].Preictal], fc.k)
        fold == IF do_segment_split THEN First(ValidatorFolds(val)) ELSE First(KFoldFolds(skf))
    IN  IF ~fc.ok THEN SplitError
        ELSE IF do_segment_split /\ val.state # "ready" THEN [SplitError EXCEPT !.k = fc.k]
        ELSE IF ~do_segment_split /\ ~skf.ok THEN [SplitError EXCEPT !.k = fc.k]
        ELSE [status |-> "ok", k |-> fc.k,
              train |-> ILoc(t, fold.train), test |-> ILoc(t, fold.test)]

\* ---------------------------------------------------------------- merging
\* downsample_ratio as num/den; int tells a Python int from a float (the
\* default 2.0 is a float), which decides the type of len(preictal) * ratio.
DownsampleRatios ==
    {[num |-> 1, den |-> 1, int |-> TRUE], [num |-> 2, den |-> 1, int |-> TRUE],
     [num |-> 2, den |-> 1, int |-> FALSE], [num |-> 3, den |-> 2, int |-> FALSE],
     [num |-> 1, den |-> 2, int |-> FALSE]}

\* sortlevel('segment'): rows ordered by segment, then frame.
SortLevelSegment(t) ==
    LET ids == SortedSeq(SegmentIds(t))
        frames(s) == SortedSeq({t[i].frame : i \in RowsOfSegment(t, s)})
        row(s, f) == t[CHOOSE i \in DOMAIN t : t[i].segment = s /\ t[i].frame = f]
    IN  ConcatAll([j \in DOMAIN ids |-> [m \in DOMAIN frames(ids[j]) |-> row(ids[j], frames(ids[j])[m])]])

\* df.loc[segments]: every row of the named segments.
LocSegments(t, names) == SelectSeq(t, LAMBDA row : row.segment \in names)

\* df.iloc[positions] for a set of 1-based positions, in table order.
ILocSet(t, positions) == [j \in DOMAIN SortedSeq(positions) |-> t[SortedSeq(positions)[j]]]

\* A slip: the segment count rounded up instead of truncated.
SegmentSampleCountRoundedUp(t, n_pre, ratio) ==
    (n_pre * ratio.num * Cardinality(SegmentIds(t)) + ratio.den * Len(t) - 1) \div (ratio.den * Len(t))

\* n_segment_samples = int(n_samples / samples_per_segment), with
\* n_samples = n_pre * ratio and samples_per_segment = len(df1) / segments.
\* Exact on the tables explored, where the double quotient never rounds
\* across an integer.
SegmentSampleCount(t, n_pre, ratio) ==
    (n_pre * ratio.num * Cardinality(SegmentIds(t))) \div (ratio.den * Len(t))

\* What random.sample may return inside downsample(df1, n_pre * ratio):
\* sets of segment names (segment split) or of row positions; {{}} where
\* the code draws nothing.
SampleChoices(t, n_pre, ratio, do_segment_split) ==
    IF do_segment_split
    THEN IF Len(t) > 0 /\ SegmentSampleCount(t, n_pre, ratio) < Cardinality(SegmentIds(t))
         THEN {c \in SUBSET SegmentIds(t) : Cardinality(c) = SegmentSampleCount(t, n_pre, ratio)}
         ELSE {{}}
    ELSE IF n_pre * ratio.num < Len(t) * ratio.den /\ ratio.int
         THEN {c \in SUBSET DOMAIN t : Cardinality(c) * ratio.den = n_pre * ratio.num}
         ELSE {{}}

\* downsample(df1, n_samples, do_segment_split) with n_samples = n_pre *
\* ratio; sample is the outcome of random.sample.
downsample(df1, n_pre, ratio, do_segment_split, sample) ==
    IF do_segment_split
    THEN IF Len(df1) = 0
         THEN [ok |-> FALSE, error |-> "ZeroDivisionError", rows |-> <<>>]
         ELSE IF SegmentSampleCount(df1, n_pre, ratio) < Cardinality(SegmentIds(df1))
         THEN [ok |-> TRUE, error |-> "", rows |-> LocSegments(df1, sample)]
         ELSE [ok |-> TRUE, error |-> "", rows |-> df1]
    ELSE IF n_pre * ratio.num < Len(df1) * ratio.den
         THEN IF ratio.int
              THEN [ok |-> TRUE, error |-> "", rows |-> ILocSet(df1, sample)]
              ELSE [ok |-> FALSE, error |-> "TypeError", rows |-> <<>>]
         ELSE [ok |-> TRUE, error |-> "", rows |-> df1]

\* A slip: the preictal rows put first and the final sort left out.
merge_preictal_first_unsorted(interictal, preictal, do_downsample, ratio, do_segment_split, sample) ==
    LET inter == SortLevelSegment(interictal)
        pre == SortLevelSegment(preictal)
        down == IF do_downsample
                THEN downsample(inter, Len(pre), ratio, do_segment_split, sample)
                ELSE [ok |-> TRUE, error |-> "", rows |-> inter]
    IN  IF down.ok
        THEN [status |-> "ok", error |-> "", dataset |-> pre \o down.rows]
        ELSE [status |-> "error", error |-> down.error, dataset |-> <<>>]

\* A slip: the preictal table is cut as well when it is the larger one.
merge_downsample_larger(interictal, preictal, do_downsample, ratio, do_segment_split, sample) ==
    LET inter == SortLevelSegment(interictal)
        pre == SortLevelSegment(preictal)
        down == IF do_downsample
                THEN downsample(inter, Len(pre), ratio, do_segment_split, sample)
                ELSE [ok |-> TRUE, error |-> "", rows |-> inter]
        kept == IF do_downsample /\ Len(pre) > Len(inter)
                THEN SubSeq(pre, 1, Min({Len(pre), (Len(inter) * ratio.num) \div ratio.den}))
                ELSE pre
    IN  IF down.ok
        THEN [status |-> "ok", error |-> "", dataset |-> SortLevelSegment(down.rows \o kept)]
        ELSE [status |-> "error", error |-> down.error, dataset |-> <<>>]

\* merge_interictal_preictal(interictal, preictal, do_downsample,
\* downsample_ratio, do_segment_split)
merge_interictal_preictal(interictal, preictal, do_downsample, ratio, do_segment_split, sample) ==
    LET inter == SortLevelSegment(interictal)
        pre == SortLevelSegment(preictal)
        down == IF do_downsample
                THEN downsample(inter, Len(pre), ratio, do_segment_split, sample)
                ELSE [ok |-> TRUE, error |-> "", rows |-> inter]
    IN  IF down.ok
        THEN [status |-> "ok", error |-> "", dataset |-> SortLevelSegment(down.rows \o pre)]
        ELSE [status |-> "error", error |-> down.error, dataset |-> <<>>]

\* ---------------------------------------------------------------- framing
\* frame_length default of extend_data_with_sliding_frames.
DefaultFrameLength == 12

\* A table of n windows of w features, every value distinct.
WindowTable(n, w) == [i \in 1..n |-> [c \in 1..w |-> (i - 1) * w + c]]

\* ndarray.reshape(rows, width) of a 2-d array, in row-major order.
Reshape(values, rows, width) ==
    LET flat == ConcatAll(values)
    IN  [j \in 1..rows |-> SubSeq(flat, (j - 1) * width + 1, j * width)]

\* A slip: the windows dealt out to the frames in turn.
reshape_frames_interleaved(dataframe, w, frame_length) ==
    LET n_windows == Len(dataframe)
        n_frames == n_windows \div frame_length
    IN  IF n_windows % frame_length # 0
        THEN [status |-> "error", error |-> "ValueError", frames |-> <<>>]
        ELSE [status |-> "ok", error |-> "",
              frames |-> [j \in 1..n_frames |->
                             ConcatAll([m \in 1..frame_length |-> dataframe[j + (m - 1) * n_frames]])]]

\* reshape_frames(dataframe, frame_length); w is the window width
\* (dataframe.shape[1]).  n_frames = n_windows / frame_length is a float
\* holding a whole number, which reshape takes as that number.
reshape_frames(dataframe, w, frame_length) ==
    LET n_windows == Len(dataframe)
        n_frames == n_windows \div frame_length
        frame_width == w * frame_length
    IN  IF n_windows % frame_length # 0
        THEN [status |-> "error", error |-> "ValueError", frames |-> <<>>]
        ELSE [status |-> "ok", error |-> "", frames |-> Reshape(dataframe, n_frames, frame_width)]

\* extend_data_with_sliding_frames(source_array, frame_length); np.zeros
\* raises on a negative row count.
extend_data_with_sliding_frames(source_array, w, frame_length) ==
    LET n_rows == Len(source_array)
        n_sliding_frames == n_rows - (frame_length - 1)
        frame_size == w * frame_length
    IN  IF n_sliding_frames < 0
        THEN [status |-> "error", error |-> "ValueError", frames |-> <<>>]
        ELSE [status |-> "ok", error |-> "",
              frames |-> [i \in 1..n_sliding_frames |->
                             Reshape(SubSeq(source_array, i, i + frame_length - 1), 1, frame_size)[1]]]

\* create_sliding_frames(dataframe, frame_length): the array is extended
\* with the default frame length (line 463 passes none), the column index
\* is built for frame_length, and pd.DataFrame raises when the two widths
\* differ.
create_sliding_frames(dataframe, w, frame_length) ==
    LET extended_array == extend_data_with_sliding_frames(dataframe, w, DefaultFrameLength)
    IN  IF extended_array.status # "ok" THEN extended_array
        ELSE IF w * DefaultFrameLength # w * frame_length
        THEN [status |-> "error", error |-> "ValueError", frames |-> <<>>]
        ELSE extended_array

\* ---------------------------------------------------------------- scaling
\* Numbers as fractions n/d in lowest terms with d > 0; d = 0 stands for a
\* value that is not finite (n = 0 NaN, otherwise an infinity of that sign).
Abs(x) == IF x < 0 THEN 0 - x ELSE x

RECURSIVE GCD(_, _)
GCD(a, b) == IF b = 0 THEN a ELSE GCD(b, a % b)

Ratio(n, d) ==
    IF d = 0 THEN [n |-> IF n > 0 THEN 1 ELSE IF n < 0 THEN -1 ELSE 0, d |-> 0]
    ELSE LET g == GCD(Abs(n), Abs(d))
             sign == IF d < 0 THEN -1 ELSE 1
         IN  [n |-> sign * (n \div g), d |-> sign * (d \div g)]

Zero == Ratio(0, 1)

One == Ratio(1, 1)

\* A table cell: the fraction n/d divided by the square root of the
\* fraction v (a standard deviation is kept as its variance).
Cell(x) == [n |-> x, d |-> 1, v |-> One]

\* The columns of the tables passed to scale: the class label and a feature.
Columns == {"Preictal", "x"}

\* The sum of the cells of column c of table t, or of their squares (the
\* cells of an input table are whole numbers).
RECURSIVE ColumnSum(_, _, _)
ColumnSum(t, c, square) ==
    IF t = <<>> THEN 0
    ELSE (IF square THEN t[1][c].n * t[1][c].n ELSE t[1][c].n) + ColumnSum(Tail(t), c, square)

\* complete_frame.mean() of column c: NaN for a frame without rows.
ColumnMean(t, c) == Ratio(ColumnSum(t, c, FALSE), Len(t))

\* complete_frame.std() of column c, as the variance with ddof = 1: NaN for
\* fewer than two rows.
ColumnVariance(t, c) ==
    IF Len(t) < 2 THEN Ratio(0, 0)
    ELSE Ratio(Len(t) * ColumnSum(t, c, TRUE) - ColumnSum(t, c, FALSE) * ColumnSum(t, c, FALSE),
               Len(t) * (Len(t) - 1))

\* cell - m
Minus(cell, m) ==
    IF cell.d = 0 \/ m.d = 0 THEN [n |-> 0, d |-> 0, v |-> One]
    ELSE LET r == Ratio(cell.n * m.d - m.n * cell.d, cell.d * m.d)
         IN  [n |-> r.n, d |-> r.d, v |-> cell.v]

\* cell / sqrt(variance)
Over(cell, variance) ==
    IF variance.d = 0 THEN [n |-> 0, d |-> 0, v |-> One]
    ELSE IF variance.n = 0 THEN [n |-> Ratio(cell.n, 0).n, d |-> 0, v |-> One]
    ELSE [cell EXCEPT !.v = variance]

\* dataframe - mean, column by column.
FrameMinus(t, mean) == [i \in DOMAIN t |-> [c \in Columns |-> Minus(t[i][c], mean[c])]]

\* dataframe / std, column by column.
FrameOver(t, std) == [i \in DOMAIN t |-> [c \in Columns |-> Over(t[i][c], std[c])]]

\* scale(*dataframes, center, scale, inplace).  The objects passed in are
\* numbered 1..n; inputs are their contents after the call, returned the
\* objects returned with their contents.  With inplace the operators -= and
\* /= change the object they are applied to and the tuple of arguments is
\* returned; without, new_dataframe starts as the argument itself and is
\* rebound to a new object (numbered n + i) by each of - and / that runs.
\* pd.concat of no frames raises ValueError.
scale(dataframes, center, scaled, inplace) ==
    LET n == Len(dataframes)
        complete_frame == ConcatAll(dataframes)
        mean == [[c \in Columns |-> ColumnMean(complete_frame, c)] EXCEPT !.Preictal = Zero]
        std == [[c \in Columns |-> ColumnVariance(complete_frame, c)] EXCEPT !.Preictal = One]
        centered(t) == IF center THEN FrameMinus(t, mean) ELSE t
        standardized(t) == IF scaled THEN FrameOver(centered(t), std) ELSE centered(t)
    IN  IF n = 0
        THEN [status |-> "error", error |-> "ValueError", inputs |-> <<>>, returned |-> <<>>]
        ELSE IF inplace
        THEN [status |-> "ok", error |-> "",
              inputs |-> [i \in 1..n |-> standardized(dataframes[i])],
              returned |-> [i \in 1..n |-> [id |-> i, table |-> standardized(dataframes[i])]]]
        ELSE [status |-> "ok", error |-> "",
              inputs |-> dataframes,
              returned |-> [i \in 1..n |->
                               [id |-> IF center \/ scaled THEN n + i ELSE i,
                                table |-> standardized(dataframes[i])]]]

\* ----------------------------------------------------------------- loading
\* Feature values: finite numbers, NaN and +infinity.
Num(v) == [kind |-> "num", v |-> v]

NaN == [kind |-> "nan", v |-> 0]

Inf == [kind |-> "inf", v |-> 0]

\* np.isnan of one value: true of NaN only.
isnan(x) == x.kind = "nan"

\* The load function (features_combined.load by default) on one file
\* group, here its table of one-feature windows: fixed frames or sliding
\* frames of frame_length windows.
load(files, frame_length, sliding_frames) ==
    IF sliding_frames
    THEN extend_data_with_sliding_frames(files, 1, frame_length)
    ELSE reshape_frames(files, 1, frame_length)

\* pd.concat(segment_frames, names=('segment', 'frame'), keys=segment_names):
\* the j-th frame table goes under the j-th name, frames numbered from 0.
ConcatKeys(segment_names, segment_frames) ==
    ConcatAll([j \in DOMAIN segment_frames |->
                  [m \in DOMAIN segment_frames[j] |->
                      [segment |-> segment_names[j], frame |-> m - 1,
                       values |-> segment_frames[j][m]]]])

\* np.count_nonzero(np.isnan(complete_frame)) != 0
HasNaN(t) == \E i \in DOMAIN t : \E c \in DOMAIN t[i].values : isnan(t[i].values[c])

\* np.interp at position i between the valid neighbours a at p and b at q:
\* slope * (i - p) + a, which is NaN when a is infinite (NumPy 1.x of the
\* source's time).
Interp(a, b, p, q, i) ==
    IF a.kind = "inf" THEN NaN
    ELSE IF b.kind = "inf" THEN Inf
    ELSE Num(a.v + ((b.v - a.v) * (i - p)) \div (q - p))

\* A slip: every NaN takes the valid value before it (method 'pad').
InterpolateColumnPad(col) ==
    [i \in DOMAIN col |->
        IF ~isnan(col[i]) THEN col[i]
        ELSE LET before == {p \in 1..(i - 1) : ~isnan(col[p])}
             IN  IF before = {} THEN NaN ELSE col[Max(before)]]

\* Series.interpolate(method='linear') of one column: NaNs between valid
\* values are interpolated over equally spaced rows, NaNs after the last
\* valid value take it, NaNs before the first valid value stay.
InterpolateColumn(col) ==
    [i \in DOMAIN col |->
        IF ~isnan(col[i]) THEN col[i]
        ELSE LET before == {p \in 1..(i - 1) : ~isnan(col[p])}
                 after == {q \in (i + 1)..Len(col) : ~isnan(col[q])}
             IN  IF before = {} THEN NaN
                 ELSE IF after = {} THEN col[Max(before)]
                 ELSE Interp(col[Max(before)], col[Min(after)], Max(before), Min(after), i)]

\* DataFrame.interpolate(method='linear'): every column, down the rows of
\* the whole table.
Interpolate(t) ==
    [i \in DOMAIN t |->
        [t[i] EXCEPT !.values =
            [c \in DOMAIN t[i].values |-> InterpolateColumn([r \in DOMAIN t |-> t[r].values[c]])[i]]]]

\* A slip: the concatenated frame left in the order of the descriptors.
AssembleFramesUnsorted(segment_names, segment_frames) ==
    LET complete_frame == ConcatKeys(segment_names, segment_frames)
    IN  IF HasNaN(complete_frame)
        THEN [warned |-> TRUE, table |-> Interpolate(complete_frame)]
        ELSE [warned |-> FALSE, table |-> complete_frame]

\* rebuild_features from the concatenation on: sort, then interpolate and
\* warn when a NaN is found.
AssembleFrames(segment_names, segment_frames) ==
    LET complete_frame == SortLevelSegment(ConcatKeys(segment_names, segment_frames))
    IN  IF HasNaN(complete_frame)
        THEN [warned |-> TRUE, table |-> Interpolate(complete_frame)]
        ELSE [warned |-> FALSE, table |-> complete_frame]

\* DataFrame.to_pickle: the blob holds the row index and the values.
to_pickle(t) ==
    [index |-> [i \in DOMAIN t |-> <<t[i].segment, t[i].frame>>],
     values |-> [i \in DOMAIN t |-> t[i].values]]

\* pd.read_pickle: the table of a blob.
read_pickle(blob) ==
    [i \in DOMAIN blob.index |->
        [segment |-> blob.index[i][1], frame |-> blob.index[i][2], values |-> blob.values[i]]]

\* The cache file name of a (class_name, frame_length, sliding_frames)
\* triple inside the output folder: one name per triple.
generate_filename(class_name, frame_length, sliding_frames) ==
    <<class_name, frame_length, sliding_frames>>

\* The descriptors {segment, files} of a class found in the feature folder.
find_grouped_feature_files(feature_folder, class_name) == feature_folder[class_name]

\* No file of that name in the output folder.
NoEntry == [exists |-> FALSE]

\* A slip: the rebuild flag ignored.
NeedsRebuildWhenAbsent(c, files) ==
    files[generate_filename(c.class_name, c.frame_length, c.sliding_frames)] = NoEntry

\* A slip: a call that loads in a pool rebuilds whatever the cache holds.
NeedsRebuildInPool(c, files) ==
    \/ c.rebuild_data
    \/ c.processes > 1
    \/ files[generate_filename(c.class_name, c.frame_length, c.sliding_frames)] = NoEntry

\* if rebuild_data or not os.path.exists(cache_file)
NeedsRebuild(c, files) ==
    c.rebuild_data \/ files[generate_filename(c.class_name, c.frame_length, c.sliding_frames)] = NoEntry

\* complete_frame = pd.read_pickle(cache_file), then sortlevel('segment')
CacheRead(blob) == SortLevelSegment(read_pickle(blob))

\* load_files_serial: the list comprehension loads file group after file
\* group and stops at the first that raises; loaded lists the groups the
\* load function was called on.
load_files_serial(feature_files, frame_length, sliding_frames) ==
    LET all == [j \in DOMAIN feature_files |-> load(feature_files[j], frame_length, sliding_frames)]
        bad == {j \in DOMAIN all : all[j].status # "ok"}
    IN  IF bad = {}
        THEN [status |-> "ok", error |-> "", frames |-> [j \in DOMAIN all |-> all[j].frames],
              loaded |-> [j \in DOMAIN all |-> j]]
        ELSE [status |-> "error", error |-> all[Min(bad)].error, frames |-> <<>>,
              loaded |-> [j \in 1..Min(bad) |-> j]]

\* A slip: the results of pool.map taken in order of completion.
PoolMapUnordered(value, completed) == [j \in DOMAIN completed |-> value[completed[j]].frames]

\* segment_frames = pool.map(partial_load_and_pivot, feature_files): the
\* result of task j stands at position j, whenever it arrived.
PoolMap(value, completed) == [j \in DOMAIN value |-> value[j].frames]

\* A slip: a failed load swallowed and the table built of what is left.
RebuildOutcomeSwallowed(feature_file_dicts, loading) ==
    LET segment_names == [j \in DOMAIN feature_file_dicts |-> feature_file_dicts[j].segment]
        assembled == AssembleFrames(segment_names, loading.frames)
    IN  [status |-> "ok", error |-> "", table |-> assembled.table, warned |-> assembled.warned]

\* rebuild_features after the loading: what it returns or raises, given
\* the outcome of load_files_serial or load_files_parallel.
RebuildOutcome(feature_file_dicts, loading) ==
    LET segment_names == [j \in DOMAIN feature_file_dicts |-> feature_file_dicts[j].segment]
        assembled == AssembleFrames(segment_names, loading.frames)
    IN  IF loading.status # "ok"
        THEN [status |-> "error", error |-> loading.error, table |-> <<>>, warned |-> FALSE]
        ELSE [status |-> "ok", error |-> "", table |-> assembled.table, warned |-> assembled.warned]

\* ------------------------------------------------------------------ actions
\* The calls explored: args is the call a run makes, drawn at the start.
ValidatorArgs ==
    {[op |-> "SegmentCrossValidator", dataframe |-> t, n_folds |-> k] :
        t \in Tables \cup ScatteredTables, k \in 0..MaxFolds}

SplitArgs ==
    {[op |-> "split_dataset", dataframe |-> t, training_ratio |-> num, do_segment_split |-> seg] :
        t \in Tables, num \in RatioNums, seg \in BOOLEAN}

\* The interictal rows are labelled 0 and the preictal rows 1, as
\* load_data_frames labels them; preictal segments are as long as each
\* other and their names sort after the interictal ones.
MergeArgs ==
    {[op |-> "merge_interictal_preictal",
      interictal |-> MkTable([s \in 1..Len(d) |-> <<d[s], 0>>], 0),
      preictal |-> MkTable([s \in 1..p |-> <<r, 1>>], MaxMergeSegs),
      do_downsample |-> down, downsample_ratio |-> ratio, do_segment_split |-> seg] :
        d \in UNION {[1..ns -> 1..MaxRows] : ns \in 0..MaxMergeSegs},
        p \in 0..MaxMergeSegs, r \in 1..MaxRows,
        down \in BOOLEAN, ratio \in DownsampleRatios, seg \in BOOLEAN}

FrameArgs ==
    {[op |-> o, dataframe |-> WindowTable(n, w), width |-> w, frame_length |-> l] :
        o \in {"reshape_frames", "create_sliding_frames", "extend_data_with_sliding_frames"},
        n \in 0..MaxWindows, w \in 1..MaxWidth, l \in 1..MaxWindows}

\* One-feature windows holding the given values.
Windows(vals) == [i \in DOMAIN vals |-> <<vals[i]>>]

\* The file groups a descriptor of a direct rebuild_features call may name.
FileGroups ==
    {Windows(v) : v \in {<<Num(0)>>, <<Num(0), Num(60)>>, <<NaN>>, <<Num(0), NaN>>,
                         <<NaN, Num(60)>>, <<Inf>>}}

\* Lists of up to MaxLoadSegs descriptors, the segment names in any order.
DescriptorLists ==
    UNION {{[j \in 1..n |-> [segment |-> names[j], files |-> g[j]]] :
               names \in Permutations(1..n), g \in [1..n -> FileGroups]} : n \in 0..MaxLoadSegs}

FrameLengths == {1, 2}

ProcessCounts == {1, 2}

ClassNames == {"preictal", "interictal", "test"}

CacheFiles == {generate_filename(c, l, s) : c \in ClassNames, l \in FrameLengths, s \in BOOLEAN}

\* The descriptors of one class in the feature folders explored: two
\* segments listed out of order; a segment of two windows and one of a
\* single window (which frame_length 2 does not divide); no segment.
ClassFiles ==
    {<<[segment |-> 2, files |-> Windows(<<Num(0), Num(60)>>)],
       [segment |-> 1, files |-> Windows(<<Num(60), Num(0)>>)]>>,
     <<[segment |-> 1, files |-> Windows(<<Num(0), Num(60)>>)],
       [segment |-> 2, files |-> Windows(<<Num(60)>>)]>>,
     <<>>}

\* A feature folder: the same file groups for every class, the segment
\* names of the classes apart.
Folder(d) ==
    [c \in ClassNames |->
        [j \in DOMAIN d |->
            [d[j] EXCEPT !.segment = @ + (CASE c = "preictal" -> 0
                                            [] c = "interictal" -> Len(d)
                                            [] c = "test" -> Len(d) + Len(d))]]]

\* A cache file left by an earlier run over other feature files.
StaleEntry == to_pickle(<<[segment |-> 9, frame |-> 0, values |-> <<Num(0)>>]>>)

RebuildArgs ==
    {[op |-> "rebuild_features", feature_file_dicts |-> d, class_name |-> "preictal",
      frame_length |-> l, sliding_frames |-> s, processes |-> p] :
        d \in DescriptorLists, l \in FrameLengths, s \in BOOLEAN, p \in ProcessCounts}

\* A run of load_feature_files calls on one feature folder, the cache
\* files of the folder all absent or all left by an earlier run.
LoadArgs ==
    {[op |-> "load_feature_files", folder |-> Folder(d), cached |-> cached] :
        d \in ClassFiles, cached \in BOOLEAN}

\* The calls of such a run.
LoadCalls ==
    {[class_name |-> "preictal", frame_length |-> l, sliding_frames |-> s,
      rebuild_data |-> r, processes |-> p] :
        l \in FrameLengths, s \in BOOLEAN, r \in BOOLEAN, p \in ProcessCounts}

LoadDataFramesArgs ==
    {[op |-> "load_data_frames", folder |-> Folder(d), cached |-> cached, sliding_frames |-> s,
      frame_length |-> l, rebuild_data |-> r, processes |-> p] :
        d \in ClassFiles, cached \in BOOLEAN, s \in BOOLEAN, l \in FrameLengths,
        r \in BOOLEAN, p \in ProcessCounts}

\* Two load_feature_files invocations running at once in two processes,
\* each on its own feature folder, both with the output folder, class_name,
\* frame_length and sliding_frames of call, hence with one cache file.
ConcurrentArgs ==
    {[op |-> "concurrent load_feature_files", folders |-> <<Folder(d1), Folder(d2)>>,
      cached |-> cached, rebuild_data |-> <<r1, r2>>,
      call |-> [class_name |-> "preictal", frame_length |-> l, sliding_frames |-> s,
                rebuild_data |-> FALSE, processes |-> 1]] :
        d1 \in ClassFiles, d2 \in ClassFiles, cached \in BOOLEAN, r1 \in BOOLEAN, r2 \in BOOLEAN,
        l \in FrameLengths, s \in BOOLEAN}

\* Tables of up to two rows of a label and a feature value, passed none,
\* one or two at a time, under every combination of the three flags.
ScaleTables ==
    UNION {[1..n -> {[c \in Columns |-> Cell(IF c = "Preictal" THEN r[1] ELSE r[2])] :
                        r \in {0, 1} \X {0, 2}}] : n \in 0..2}

ScaleArgs ==
    {[op |-> "scale", dataframes |-> d, center |-> c, scale |-> s, inplace |-> i] :
        d \in UNION {[1..n -> ScaleTables] : n \in 0..2},
        c \in BOOLEAN, s \in BOOLEAN, i \in BOOLEAN}

AllArgs ==
    ValidatorArgs \cup SplitArgs \cup MergeArgs \cup FrameArgs
        \cup RebuildArgs \cup LoadArgs \cup LoadDataFramesArgs \cup ConcurrentArgs
        \cup ScaleArgs

NoResult == [status |-> "none"]

\* No call made yet.
NoCall ==
    [class_name |-> "", frame_length |-> 0, sliding_frames |-> FALSE,
     rebuild_data |-> FALSE, processes |-> 0]

\* The loader before any call.  call is the call in progress or last made
\* and before the cache files when it began; found tells whether the call
\* invoked the find function, loaded lists the descriptors it invoked the
\* load function on (in order of completion when loaded by the pool),
\* warned tells whether it logged the NaN warning; value holds the results
\* the pool has received; tables are the tables load_data_frames has got.
IdleLoader ==
    [pc |-> "idle", call |-> NoCall, before |-> [f \in CacheFiles |-> NoEntry],
     found |-> FALSE, loaded |-> <<>>, warned |-> FALSE, value |-> <<>>, tables |-> <<>>]

\* The processes of two invocations running at once.
Invokers == {1, 2}

\* An invocation not yet begun.  absent tells whether its check found the
\* cache file missing, table is the table it has built or read, order the
\* rank of its write among the writes to the cache file (0: none).
IdleInvocation == [pc |-> "idle", absent |-> FALSE, table |-> <<>>, order |-> 0]

Init ==
    /\ args \in AllArgs
    /\ cv = NoValidator("none")
    /\ result = NoResult
    /\ cache = [f \in CacheFiles |->
                   IF args.op \in {"load_feature_files", "load_data_frames",
                                   "concurrent load_feature_files"} /\ args.cached
                   THEN StaleEntry ELSE NoEntry]
    /\ loader = IdleLoader
    /\ invocations = [p \in Invokers |-> IdleInvocation]

\* cv = SegmentCrossValidator(dataframe, n_folds=k)
Construct ==
    /\ args.op = "SegmentCrossValidator"
    /\ cv.state = "none"
    /\ cv' = NewValidator(args.dataframe, args.n_folds)
    /\ UNCHANGED <<args, result, cache, loader, invocations>>

\* A slip: the generator starts the wrapped one again for every fold.
IterNextRestarted ==
    /\ cv.state = "ready"
    /\ cv.pos < KFoldLen(cv.cv)
    /\ cv' = [cv EXCEPT !.pos = @ + 1, !.folds = Append(@, SegmentFold(cv, 0))]
    /\ UNCHANGED <<args, result, cache, loader, invocations>>

\* The generator of __iter__ yields its next fold.
IterNext ==
    /\ cv.state = "ready"
    /\ cv.pos < KFoldLen(cv.cv)
    /\ cv' = [cv EXCEPT !.pos = @ + 1, !.folds = Append(@, SegmentFold(cv, cv.pos))]
    /\ UNCHANGED <<args, result, cache, loader, invocations>>

\* The wrapped generator is exhausted: the for loop of __iter__ ends.
IterEnd ==
    /\ cv.state = "ready"
    /\ cv.pos = KFoldLen(cv.cv)
    /\ cv' = [cv EXCEPT !.state = "exhausted"]
    /\ UNCHANGED <<args, result, cache, loader, invocations>>

SplitDataset ==
    /\ args.op = "split_dataset"
    /\ result = NoResult
    /\ result' = split_dataset(args.dataframe, args.training_ratio, args.do_segment_split)
    /\ UNCHANGED <<args, cv, cache, loader, invocations>>

\* random.sample draws any sample of the size asked for.
MergeInterictalPreictal ==
    /\ args.op = "merge_interictal_preictal"
    /\ result = NoResult
    /\ \E sample \in SampleChoices(SortLevelSegment(args.interictal), Len(args.preictal),
                                   args.downsample_ratio, args.do_segment_split) :
           result' = merge_interictal_preictal(args.interictal, args.preictal, args.do_downsample,
                                               args.downsample_ratio, args.do_segment_split, sample)
    /\ UNCHANGED <<args, cv, cache, loader, invocations>>

ReshapeFrames ==
    /\ args.op = "reshape_frames"
    /\ result = NoResult
    /\ result' = reshape_frames(args.dataframe, args.width, args.frame_length)
    /\ UNCHANGED <<args, cv, cache, loader, invocations>>

ExtendDataWithSlidingFrames ==
    /\ args.op = "extend_data_with_sliding_frames"
    /\ result = NoResult
    /\ result' = extend_data_with_sliding_frames(args.dataframe, args.width, args.frame_length)
    /\ UNCHANGED <<args, cv, cache, loader, invocations>>

CreateSlidingFrames ==
    /\ args.op = "create_sliding_frames"
    /\ result = NoResult
    /\ result' = create_sliding_frames(args.dataframe, args.width, args.frame_length)
    /\ UNCHANGED <<args, cv, cache, loader, invocations>>

\* The descriptors the call in progress rebuilds from.
FeatureFileDicts(c) ==
    IF args.op = "rebuild_features"
    THEN args.feature_file_dicts
    ELSE find_grouped_feature_files(args.folder, c.class_name)

\* rebuild_features ends with outcome: a direct call returns or raises
\* it; load_feature_files pickles the table it got and returns it, or lets
\* the error through.
EndRebuild(l, outcome) ==
    LET c == l.call
        ok == outcome.status = "ok"
    IN  /\ loader' = [l EXCEPT !.pc = IF ok THEN "returned" ELSE "raised",
                               !.warned = outcome.warned,
                               !.tables = IF ok /\ args.op = "load_data_frames"
                                          THEN Append(@, outcome.table) ELSE @]
        /\ result' = [status |-> outcome.status, error |-> outcome.error, table |-> outcome.table]
        /\ cache' = IF ok /\ args.op # "rebuild_features"
                    THEN [cache EXCEPT ![generate_filename(c.class_name, c.frame_length,
                                                           c.sliding_frames)] = to_pickle(outcome.table)]
                    ELSE cache

\* rebuild_features(feature_files, ...) up to its return or to pool.map:
\* zip(*tupled) cannot be unpacked when there is no descriptor.
StartRebuild(l, c) ==
    LET feature_file_dicts == FeatureFileDicts(c)
        feature_files == [j \in DOMAIN feature_file_dicts |-> feature_file_dicts[j].files]
        serial == load_files_serial(feature_files, c.frame_length, c.sliding_frames)
    IN  IF feature_file_dicts = <<>>
        THEN EndRebuild(l, [status |-> "error", error |-> "ValueError", table |-> <<>>,
                            warned |-> FALSE])
        ELSE IF c.processes > 1
        THEN /\ loader' = [l EXCEPT !.pc = "map",
                                    !.value = [j \in DOMAIN feature_files |-> NoResult]]
             /\ result' = NoResult
             /\ UNCHANGED cache
        ELSE EndRebuild([l EXCEPT !.loaded = serial.loaded],
                        RebuildOutcome(feature_file_dicts, serial))

\* load_feature_files(feature_folder, class_name, ...) as call c, up to its
\* return or to pool.map.
load_feature_files(c) ==
    LET began == [loader EXCEPT !.call = c, !.before = cache, !.found = FALSE,
                                !.loaded = <<>>, !.warned = FALSE, !.value = <<>>]
        cache_file == generate_filename(c.class_name, c.frame_length, c.sliding_frames)
        complete_frame == CacheRead(cache[cache_file])
    IN  IF NeedsRebuild(c, cache)
        THEN StartRebuild([began EXCEPT !.found = TRUE], c)
        ELSE /\ loader' = [began EXCEPT !.pc = "returned",
                                        !.tables = IF args.op = "load_data_frames"
                                                   THEN Append(@, complete_frame) ELSE @]
             /\ result' = [status |-> "ok", error |-> "", table |-> complete_frame]
             /\ UNCHANGED cache

\* rebuild_features called directly.
RebuildFeatures ==
    /\ args.op = "rebuild_features"
    /\ loader.pc = "idle"
    /\ StartRebuild([loader EXCEPT !.call = [class_name |-> args.class_name,
                                             frame_length |-> args.frame_length,
                                             sliding_frames |-> args.sliding_frames,
                                             rebuild_data |-> FALSE,
                                             processes |-> args.processes]],
                    [class_name |-> args.class_name, frame_length |-> args.frame_length,
                     sliding_frames |-> args.sliding_frames, rebuild_data |-> FALSE,
                     processes |-> args.processes])
    /\ UNCHANGED <<args, cv, invocations>>

\* The next load_feature_files call of a run of calls: any call, once the
\* call before it has returned or raised.
LoadFeatureFiles ==
    /\ args.op = "load_feature_files"
    /\ loader.pc \in {"idle", "returned", "raised"}
    /\ \E c \in LoadCalls : load_feature_files(c)
    /\ UNCHANGED <<args, cv, invocations>>

\* A worker of the pool finishes a task that is still out, whichever: the
\* load function has run on its file group and the result is received.
WorkerCompletes ==
    /\ loader.pc = "map"
    /\ \E j \in DOMAIN loader.value :
          /\ loader.value[j] = NoResult
          /\ loader' = [loader EXCEPT
                 !.value[j] = load(FeatureFileDicts(loader.call)[j].files,
                                   loader.call.frame_length, loader.call.sliding_frames),
                 !.loaded = Append(@, j)]
    /\ UNCHANGED <<args, cv, result, cache, invocations>>

\* pool.map returns once every result is in, or raises the first error
\* received (at once, or after the other tasks, by the Python version);
\* pool.close() runs either way and rebuild_features goes on.
PoolMapReturns ==
    LET value == loader.value
        failed == {n \in DOMAIN loader.loaded : value[loader.loaded[n]].status # "ok"}
        segment_frames ==
            IF failed # {}
            THEN [status |-> "error", error |-> value[loader.loaded[Min(failed)]].error,
                  frames |-> <<>>]
            ELSE [status |-> "ok", error |-> "", frames |-> PoolMap(value, loader.loaded)]
    IN  /\ loader.pc = "map"
        /\ failed # {} \/ Len(loader.loaded) = Len(value)
        /\ EndRebuild(loader, RebuildOutcome(FeatureFileDicts(loader.call), segment_frames))
        /\ UNCHANGED <<args, cv, invocations>>

\* A slip: the caller's sliding_frames handed to the test load as well.
load_data_frames_calls_alike(a) ==
    [j \in 1..3 |->
        [class_name |-> <<"preictal", "interictal", "test">>[j], frame_length |-> a.frame_length,
         sliding_frames |-> a.sliding_frames, rebuild_data |-> a.rebuild_data,
         processes |-> a.processes]]

\* The three load_feature_files calls of load_data_frames, in order.
load_data_frames_calls(a) ==
    LET kwargs == [frame_length |-> a.frame_length, rebuild_data |-> a.rebuild_data,
                   processes |-> a.processes]
        call(class_name, sliding_frames) ==
            [class_name |-> class_name, frame_length |-> kwargs.frame_length,
             sliding_frames |-> sliding_frames, rebuild_data |-> kwargs.rebuild_data,
             processes |-> kwargs.processes]
    IN  <<call("preictal", a.sliding_frames), call("interictal", a.sliding_frames),
          call("test", FALSE)>>

\* table['Preictal'] = label
SetPreictal(t, label) ==
    [i \in DOMAIN t |->
        [segment |-> t[i].segment, frame |-> t[i].frame, values |-> t[i].values,
         Preictal |-> label]]

\* load_data_frames makes its next load_feature_files call.
LoadDataFramesCall ==
    /\ args.op = "load_data_frames"
    /\ loader.pc \in {"idle", "returned"}
    /\ Len(loader.tables) < Len(load_data_frames_calls(args))
    /\ load_feature_files(load_data_frames_calls(args)[Len(loader.tables) + 1])
    /\ UNCHANGED <<args, cv, invocations>>

\* load_data_frames labels the two training classes and returns.
LoadDataFramesReturn ==
    /\ args.op = "load_data_frames"
    /\ loader.pc = "returned"
    /\ Len(loader.tables) = Len(load_data_frames_calls(args))
    /\ loader' = [loader EXCEPT !.pc = "done"]
    /\ result' = [status |-> "ok", error |-> "",
                  interictal |-> SetPreictal(loader.tables[2], 0),
                  preictal |-> SetPreictal(loader.tables[1], 1),
                  test |-> loader.tables[3]]
    /\ UNCHANGED <<args, cv, cache, invocations>>

\* The call of invocation p of two running at once.
InvocationCall(p) == [args.call EXCEPT !.rebuild_data = args.rebuild_data[p]]

\* A slip that would exclude the invocations: the check waits while
\* another invocation is between its check and its write.
InvocationChecksLocked(p) ==
    /\ args.op = "concurrent load_feature_files"
    /\ invocations[p].pc = "idle"
    /\ \A q \in Invokers \ {p} : invocations[q].pc \notin {"rebuilding", "built"}
    /\ invocations' =
           [invocations EXCEPT ![p] =
               IF NeedsRebuild(InvocationCall(p), cache)
               THEN [@ EXCEPT !.pc = "rebuilding",
                              !.absent = cache[generate_filename(args.call.class_name,
                                  args.call.frame_length, args.call.sliding_frames)] = NoEntry]
               ELSE [@ EXCEPT !.pc = "returned",
                              !.table = CacheRead(cache[generate_filename(args.call.class_name,
                                  args.call.frame_length, args.call.sliding_frames)])]]
    /\ UNCHANGED <<args, cv, result, cache, loader>>

\* Invocation p tests "rebuild_data or not os.path.exists(cache_file)" and,
\* when it need not rebuild, reads the cache file and returns.
InvocationChecks(p) ==
    /\ args.op = "concurrent load_feature_files"
    /\ invocations[p].pc = "idle"
    /\ invocations' =
           [invocations EXCEPT ![p] =
               IF NeedsRebuild(InvocationCall(p), cache)
               THEN [@ EXCEPT !.pc = "rebuilding",
                              !.absent = cache[generate_filename(args.call.class_name,
                                  args.call.frame_length, args.call.sliding_frames)] = NoEntry]
               ELSE [@ EXCEPT !.pc = "returned",
                              !.table = CacheRead(cache[generate_filename(args.call.class_name,
                                  args.call.frame_length, args.call.sliding_frames)])]]
    /\ UNCHANGED <<args, cv, result, cache, loader>>

\* Invocation p finds its feature files and rebuilds the table (serially),
\* or raises.
InvocationRebuilds(p) ==
    LET c == InvocationCall(p)
        feature_file_dicts == find_grouped_feature_files(args.folders[p], c.class_name)
        feature_files == [j \in DOMAIN feature_file_dicts |-> feature_file_dicts[j].files]
        outcome == IF feature_file_dicts = <<>>
                   THEN [status |-> "error", error |-> "ValueError", table |-> <<>>,
                         warned |-> FALSE]
                   ELSE RebuildOutcome(feature_file_dicts,
                                       load_files_serial(feature_files, c.frame_length,
                                                         c.sliding_frames))
    IN  /\ args.op = "concurrent load_feature_files"
        /\ invocations[p].pc = "rebuilding"
        /\ invocations' =
               [invocations EXCEPT ![p] =
                   IF outcome.status = "ok"
                   THEN [@ EXCEPT !.pc = "built", !.table = outcome.table]
                   ELSE [@ EXCEPT !.pc = "raised"]]
        /\ UNCHANGED <<args, cv, result, cache, loader>>

\* Invocation p pickles its table to the cache file, over whatever the
\* file holds by then, and returns.
InvocationWrites(p) ==
    /\ args.op = "concurrent load_feature_files"
    /\ invocations[p].pc = "built"
    /\ cache' = [cache EXCEPT ![generate_filename(args.call.class_name, args.call.frame_length,
                                                  args.call.sliding_frames)] =
                                  to_pickle(invocations[p].table)]
    /\ invocations' =
           [invocations EXCEPT ![p] =
               [@ EXCEPT !.pc = "returned",
                         !.order = Cardinality({q \in Invokers : invocations[q].order > 0}) + 1]]
    /\ UNCHANGED <<args, cv, result, loader>>

\* A step of either invocation.
ConcurrentLoad ==
    \E p \in Invokers :
        \/ InvocationChecks(p)
        \/ InvocationRebuilds(p)
        \/ InvocationWrites(p)

Scale ==
    /\ args.op = "scale"
    /\ result = NoResult
    /\ result' = scale(args.dataframes, args.center, args.scale, args.inplace)
    /\ UNCHANGED <<args, cv, cache, loader, invocations>>

Next ==
    \/ Construct
    \/ IterNext
    \/ IterEnd
    \/ SplitDataset
    \/ MergeInterictalPreictal
    \/ ReshapeFrames
    \/ ExtendDataWithSlidingFrames
    \/ CreateSlidingFrames
    \/ RebuildFeatures
    \/ LoadFeatureFiles
    \/ WorkerCompletes
    \/ PoolMapReturns
    \/ LoadDataFramesCall
    \/ LoadDataFramesReturn
    \/ ConcurrentLoad
    \/ Scale

Spec == Init /\ [][Next]_vars

\* ------------------------------------------------------------------ claims
\* The segment names of the rows at 0-based positions idx of table t.
SegmentsAt(t, idx) == {t[idx[j] + 1].segment : j \in DOMAIN idx}

\* Every segment of t has rows of one label only.
Homogeneous(t) ==
    \A s \in SegmentIds(t) : Cardinality({t[i].Preictal : i \in RowsOfSegment(t, s)}) = 1

\* Every segment of t has r rows.
EqualSegments(t, r) == \A s \in SegmentIds(t) : Cardinality(RowsOfSegment(t, s)) = r

\* The number of rows of the first segment of a table that has rows.
FirstSegmentRows(t) == Cardinality(RowsOfSegment(t, t[1].segment))

SegmentsOfClass(t, c) == {t[i].segment : i \in {j \in DOMAIN t : t[j].Preictal = c}}

\* C1: in every fold a SegmentCrossValidator has yielded, the training row
\* indices and the held-out row indices are disjoint, and no segment has
\* rows on both sides.
C1_FoldSidesDisjoint ==
    \A f \in DOMAIN cv.folds :
        /\ Range(cv.folds[f].train) \cap Range(cv.folds[f].test) = {}
        /\ SegmentsAt(cv.all_segments, cv.folds[f].train)
              \cap SegmentsAt(cv.all_segments, cv.folds[f].test) = {}

\* A fold was yielded with rows on both sides, the held-out side holding a
\* whole segment of two rows and the training side two segments.
C1_Witness ==
    \E f \in DOMAIN cv.folds :
        /\ Cardinality(SegmentsAt(cv.all_segments, cv.folds[f].train)) >= 2
        /\ \E s \in SegmentsAt(cv.all_segments, cv.folds[f].test) :
              Cardinality(RowsOfSegment(cv.all_segments, s)) >= 2

\* C2: a validator constructed with n_folds = K reports len K, and a
\* finished iteration has yielded exactly K (train, test) pairs (never more
\* while it runs).
C2_YieldsKFolds ==
    cv.state \in {"ready", "exhausted"} =>
        /\ ValidatorLen(cv) = args.n_folds
        /\ Len(cv.folds) <= args.n_folds
        /\ cv.state = "exhausted" => Len(cv.folds) = args.n_folds
        /\ \A f \in DOMAIN cv.folds : DOMAIN cv.folds[f] = {"train", "test"}

\* An iteration over a 3-fold validator of more than 3 segments has ended.
C2_Witness ==
    /\ cv.state = "exhausted"
    /\ args.n_folds = 3
    /\ Len(cv.segments) > 3

\* C3 as stated: for every training_ratio in (0,1), with or without segment
\* split, split_dataset returns a train and a test table that together have
\* as many rows as the input and share no row (on a table with at least two
\* segments of each class, so that a stratified split exists).
C3_SplitPartitionsForEveryRatio ==
    (args.op = "split_dataset" /\ result # NoResult
        /\ 0 < args.training_ratio /\ args.training_ratio < 100
        /\ \A c \in {0, 1} : Cardinality(SegmentsOfClass(args.dataframe, c)) >= 2) =>
        /\ result.status = "ok"
        /\ Len(result.train) + Len(result.test) = Len(args.dataframe)
        /\ Range(result.train) \cap Range(result.test) = {}

\* The held-out side of fold f has exactly 2 segments, one of each class,
\* and 2 * r rows.
HeldOutOnePerClass(f, r) ==
    LET held == SegmentsAt(cv.all_segments, cv.folds[f].test)
    IN  /\ Cardinality(held) = 2
        /\ Cardinality(held \cap SegmentsOfClass(cv.all_segments, 0)) = 1
        /\ Cardinality(held \cap SegmentsOfClass(cv.all_segments, 1)) = 1
        /\ Len(cv.folds[f].test) = 2 * r

\* The table passed to the validator has n_folds segments of each class,
\* every segment r rows of one label.
BalancedCall(r) ==
    /\ args.op = "SegmentCrossValidator"
    /\ Cardinality(SegmentsOfClass(args.dataframe, 0)) = args.n_folds
    /\ Cardinality(SegmentsOfClass(args.dataframe, 1)) = args.n_folds
    /\ Homogeneous(args.dataframe)
    /\ EqualSegments(args.dataframe, r)

\* What C4 says of a call on a balanced table once the constructor has run.
BalancedFolds(r) ==
    /\ cv.state \in {"ready", "exhausted"}
    /\ cv.state = "exhausted" => Len(cv.folds) = args.n_folds
    /\ \A f \in DOMAIN cv.folds : HeldOutOnePerClass(f, r)

\* C4 as stated: K >= 1 segments of each class, R rows each, n_folds = K:
\* K folds, each holding out one segment of each class and 2R rows.
C4_BalancedFoldsEveryK ==
    (args.op = "SegmentCrossValidator" /\ args.n_folds >= 1 /\ cv.state # "none"
        /\ Len(args.dataframe) > 0 /\ BalancedCall(FirstSegmentRows(args.dataframe))) =>
        BalancedFolds(FirstSegmentRows(args.dataframe))

\* C4 amended: the same for K >= 2.
C4_BalancedFoldsFromTwo ==
    (args.op = "SegmentCrossValidator" /\ args.n_folds >= 2 /\ cv.state # "none"
        /\ Len(args.dataframe) > 0 /\ BalancedCall(FirstSegmentRows(args.dataframe))) =>
        BalancedFolds(FirstSegmentRows(args.dataframe))

\* The iteration over 3 + 3 segments of 2 rows with n_folds = 3 has ended.
C4_Witness ==
    /\ BalancedCall(2)
    /\ args.n_folds = 3
    /\ cv.state = "exhausted"
    /\ Len(cv.folds) = 3

\* The segments of t that are among the first n-th part of their class,
\* in segment-name order.
FirstPartOfEachClass(t, n) ==
    {s \in SegmentIds(t) :
        \E c \in {0, 1} :
            /\ s \in SegmentsOfClass(t, c)
            /\ Cardinality({u \in SegmentsOfClass(t, c) : u < s}) < Cardinality(SegmentsOfClass(t, c)) \div n}

\* The table split has equal-length one-label segments and per-class
\* segment counts divisible by k.
DivisibleSplit(k) ==
    /\ args.op = "split_dataset"
    /\ args.do_segment_split
    /\ result.status = "ok"
    /\ result.k = k
    /\ \A c \in {0, 1} : Cardinality(SegmentsOfClass(args.dataframe, c)) % k = 0
    /\ Homogeneous(args.dataframe)
    /\ EqualSegments(args.dataframe, FirstSegmentRows(args.dataframe))

\* C5: the segment-level split of a table of equal segments whose per-class
\* segment counts are divisible by k is the first fold of the k-fold
\* validator (the first count/k segments of each class held out), the
\* training table holds exactly (k-1)/k of the rows, and training_ratio 0.8
\* gives k = 5 and a share of exactly 0.8.
C5_FirstFoldShare ==
    (args.op = "split_dataset" /\ result # NoResult /\ DivisibleSplit(result.k)) =>
            LET t == args.dataframe
                k == result.k
                heldOut == FirstPartOfEachClass(t, k)
            IN  /\ Range(result.test) = {t[i] : i \in {j \in DOMAIN t : t[j].segment \in heldOut}}
                /\ Range(result.train) = {t[i] : i \in {j \in DOMAIN t : t[j].segment \notin heldOut}}
                /\ k * Len(result.train) = (k - 1) * Len(t)
                /\ args.training_ratio = 80 => (k = 5 /\ 100 * Len(result.train) = 80 * Len(t))

\* training_ratio 0.8 has split 5 + 5 segments of 2 rows into 16 and 4 rows.
C5_Witness ==
    /\ DivisibleSplit(5)
    /\ args.training_ratio = 80
    /\ Cardinality(SegmentsOfClass(args.dataframe, 0)) = 5
    /\ Cardinality(SegmentsOfClass(args.dataframe, 1)) = 5
    /\ Len(result.train) = 16
    /\ Len(result.test) = 4

C7_RatioOutsideFails ==
    (args.op = "split_dataset" /\ result # NoResult
        /\ (args.training_ratio <= 0 \/ args.training_ratio >= 100)) =>
        /\ result.status = "error"
        /\ result.train = <<>>
        /\ result.test = <<>>

\* split_dataset has raised for training_ratio 0 on a table of 12 segments.
C7_Witness ==
    /\ args.op = "split_dataset"
    /\ args.training_ratio = 0
    /\ Cardinality(SegmentIds(args.dataframe)) = 12
    /\ result.status = "error"

\* The windows first..last of a window table, concatenated in order.
WindowsConcatenated(dataframe, first, last) == ConcatAll(SubSeq(dataframe, first, last))

\* C8: reshape_frames raises the shape-mismatch ValueError whenever
\* n_windows is not divisible by frame_length; otherwise it returns exactly
\* n_windows / frame_length frames, frame j (from 0) the concatenation in
\* order of windows j*frame_length .. (j+1)*frame_length - 1.
C8_FixedFrames ==
    (args.op = "reshape_frames" /\ result # NoResult) =>
        LET n == Len(args.dataframe)
            l == args.frame_length
        IN  /\ n % l # 0 => (result.status = "error" /\ result.error = "ValueError" /\ result.frames = <<>>)
            /\ n % l = 0 =>
                  /\ result.status = "ok"
                  /\ Len(result.frames) * l = n
                  /\ \A j \in DOMAIN result.frames :
                        result.frames[j] = WindowsConcatenated(args.dataframe, (j - 1) * l + 1, j * l)

\* 12 windows of 2 features were reshaped into 4 frames of 3 windows.
C8_Witness ==
    /\ args.op = "reshape_frames"
    /\ Len(args.dataframe) = 12
    /\ args.width = 2
    /\ args.frame_length = 3
    /\ result # NoResult
    /\ result.status = "ok"
    /\ Len(result.frames) = 4

\* C9 as stated: sliding-frame construction on n windows with frame_length
\* L yields exactly max(n - L + 1, 0) frames, frame i (from 0) being the
\* concatenation in order of windows i .. i+L-1 (here for n >= L >= 1
\* only, where there is a frame to build).
C9_SlidingFrames ==
    (args.op \in {"create_sliding_frames", "extend_data_with_sliding_frames"} /\ result # NoResult
        /\ Len(args.dataframe) >= args.frame_length) =>
        LET n == Len(args.dataframe)
            l == args.frame_length
        IN  /\ result.status = "ok"
            /\ Len(result.frames) = Max({n - l + 1, 0})
            /\ \A i \in DOMAIN result.frames :
                  result.frames[i] = WindowsConcatenated(args.dataframe, i, i + l - 1)

\* The rows of table t labelled c.
RowsOfClass(t, c) == Cardinality({i \in DOMAIN t : t[i].Preictal = c})

\* C10 as stated: with downsampling by whole segments (here even with all
\* interictal segments equally long and a downsample_ratio of at least 1),
\* the merge increases neither class's row count, and the input class with
\* more rows ends with at most downsample_ratio times the rows of the
\* other class.
C10_LargerClassBounded ==
    (args.op = "merge_interictal_preictal" /\ result # NoResult
        /\ args.do_downsample /\ args.do_segment_split /\ result.status = "ok"
        /\ args.downsample_ratio.num >= args.downsample_ratio.den
        /\ EqualSegments(args.interictal, FirstSegmentRows(args.interictal))) =>
        LET in0 == Len(args.interictal)
            in1 == Len(args.preictal)
            out0 == RowsOfClass(result.dataset, 0)
            out1 == RowsOfClass(result.dataset, 1)
            ratio == args.downsample_ratio
        IN  /\ out0 <= in0
            /\ out1 <= in1
            /\ in0 > in1 => out0 * ratio.den <= ratio.num * out1
            /\ in1 > in0 => out1 * ratio.den <= ratio.num * out0

\* The rows of table t labelled c, in table order.
ClassPart(t, c) == SelectSeq(t, LAMBDA row : row.Preictal = c)

\* A merge call that downsampled a non-empty interictal table has returned.
DownsampledCall(do_segment_split) ==
    /\ args.op = "merge_interictal_preictal"
    /\ result # NoResult
    /\ args.do_downsample
    /\ args.do_segment_split = do_segment_split
    /\ Len(args.interictal) > 0

\* C11: downsampling by whole segments keeps count segments, count being
\* the integer part of n_samples / (rows / segments), when count is below
\* the number of segments: the kept rows are all the rows of count distinct
\* segments of the table and nothing else; otherwise the table is unchanged.
C11_SegmentDownsample ==
    DownsampledCall(TRUE) =>
        LET df1 == SortLevelSegment(args.interictal)
            ratio == args.downsample_ratio
            segs == Cardinality(SegmentIds(df1))
            budget == Len(args.preictal) * ratio.num * segs
            unit == ratio.den * Len(df1)
            kept == ClassPart(result.dataset, 0)
        IN  /\ result.status = "ok"
            /\ \E count \in 0..budget :
                  /\ count * unit <= budget
                  /\ budget < (count + 1) * unit
                  /\ IF count < segs
                     THEN /\ Cardinality(SegmentIds(kept)) = count
                          /\ SegmentIds(kept) \subseteq SegmentIds(df1)
                          /\ kept = LocSegments(df1, SegmentIds(kept))
                     ELSE kept = df1

\* One of two interictal segments of different lengths was kept, whole.
C11_Witness ==
    /\ DownsampledCall(TRUE)
    /\ result.status = "ok"
    /\ Cardinality(SegmentIds(args.interictal)) = 2
    /\ ~EqualSegments(args.interictal, 1)
    /\ ~EqualSegments(args.interictal, 2)
    /\ Cardinality(SegmentIds(ClassPart(result.dataset, 0))) = 1
    /\ Len(ClassPart(result.dataset, 0)) = 2

\* C12 as stated: downsampling by rows (here even with a whole-number
\* downsample_ratio and a non-empty preictal table) returns exactly
\* budget = len(preictal) * downsample_ratio rows, all distinct rows of the
\* table, when the budget is below the table's row count, and the table
\* unchanged otherwise.
C12_RowDownsample ==
    (DownsampledCall(FALSE) /\ args.downsample_ratio.den = 1 /\ Len(args.preictal) > 0) =>
        LET df1 == SortLevelSegment(args.interictal)
            budget == (Len(args.preictal) * args.downsample_ratio.num) \div args.downsample_ratio.den
            kept == ClassPart(result.dataset, 0)
        IN  /\ result.status = "ok"
            /\ IF budget < Len(df1)
               THEN /\ Len(kept) = budget
                    /\ Range(kept) \subseteq Range(df1)
                    /\ Cardinality(Range(kept)) = budget
               ELSE kept = df1

\* The number of times row r occurs in table t.
Occurrences(t, r) == Cardinality({i \in DOMAIN t : t[i] = r})

\* C13: the table a merge returns holds every preictal row once, every
\* interictal row at most once (once when do_downsample is false) and no
\* other row, each row labelled as in its input table, and its rows are
\* in order of segment id.
C13_MergedTable ==
    (args.op = "merge_interictal_preictal" /\ result # NoResult /\ result.status = "ok") =>
        LET dataset == result.dataset
        IN  /\ \A i \in DOMAIN args.preictal : Occurrences(dataset, args.preictal[i]) = 1
            /\ \A i \in DOMAIN args.interictal :
                  /\ Occurrences(dataset, args.interictal[i]) <= 1
                  /\ ~args.do_downsample => Occurrences(dataset, args.interictal[i]) = 1
            /\ Range(dataset) \subseteq Range(args.interictal) \cup Range(args.preictal)
            /\ \A i \in DOMAIN dataset :
                  dataset[i].Preictal = (IF dataset[i] \in Range(args.preictal) THEN 1 ELSE 0)
            /\ \A i \in DOMAIN dataset : \A j \in DOMAIN dataset :
                  i < j => dataset[i].segment <= dataset[j].segment

\* A merge dropped part of the interictal rows and returned rows of both
\* classes, of two preictal segments among them.
C13_Witness ==
    /\ args.op = "merge_interictal_preictal"
    /\ result # NoResult
    /\ result.status = "ok"
    /\ args.do_downsample
    /\ Len(result.dataset) < Len(args.interictal) + Len(args.preictal)
    /\ RowsOfClass(result.dataset, 0) >= 1
    /\ Cardinality(SegmentIds(ClassPart(result.dataset, 1))) = 2

\* A load_feature_files call has ended (returned or raised).
CallEnded ==
    /\ args.op \in {"load_feature_files", "load_data_frames"}
    /\ loader.pc \in {"returned", "raised"}

\* The cache file of the call in progress or last made.
CallFile ==
    generate_filename(loader.call.class_name, loader.call.frame_length, loader.call.sliding_frames)

\* C14: in every run of load_feature_files calls, a call that finds its
\* cache file and is not told to rebuild returns the cached table, calls
\* neither the find nor the load function and leaves the cache alone;
\* every other call calls the find function and, when it returns, has
\* called the load function once on every file group found, returns the
\* table built from them and has written it to its cache file (and to no
\* other), whatever the file held; after every call that returns, the
\* cache file of the call exists.
C14_CacheOrRebuild ==
    /\ (args.op \in {"load_feature_files", "load_data_frames"} /\ loader.pc = "map") =>
          /\ loader.found
          /\ loader.call.rebuild_data \/ loader.before[CallFile] = NoEntry
    /\ CallEnded =>
          LET before == loader.before
              descs == args.folder[loader.call.class_name]
          IN  /\ IF before[CallFile] # NoEntry /\ ~loader.call.rebuild_data
                 THEN /\ loader.pc = "returned"
                      /\ ~loader.found
                      /\ loader.loaded = <<>>
                      /\ to_pickle(result.table) = before[CallFile]
                      /\ cache = before
                 ELSE /\ loader.found
                      /\ loader.pc = "returned" =>
                            /\ Len(loader.loaded) = Len(descs)
                            /\ Range(loader.loaded) = DOMAIN descs
                            /\ SegmentIds(result.table) \subseteq {descs[j].segment : j \in DOMAIN descs}
                            /\ cache[CallFile] = to_pickle(result.table)
                            /\ \A f \in CacheFiles \ {CallFile} : cache[f] = before[f]
              /\ loader.pc = "returned" => cache[CallFile] # NoEntry

\* A call returned the table an earlier call of the run had rebuilt in
\* place of the cache file the run began with.
C14_Witness ==
    /\ args.op = "load_feature_files"
    /\ args.cached
    /\ loader.pc = "returned"
    /\ ~loader.found
    /\ ~loader.call.rebuild_data
    /\ loader.before[CallFile] # StaleEntry
    /\ Len(result.table) >= 2

\* C15: when a load_feature_files call has rebuilt and cached a table and
\* the next call, for the same cache file, reads the cache, the second
\* call returns the table the first returned, row for row.
C15_CacheRoundTrip ==
    [][(/\ args.op = "load_feature_files"
        /\ loader.pc = "returned"
        /\ loader.found
        /\ loader'.pc = "returned"
        /\ ~loader'.found
        /\ generate_filename(loader'.call.class_name, loader'.call.frame_length,
                             loader'.call.sliding_frames) = CallFile)
       => result'.table = result.table]_vars

\* A call read back from the cache a table of two segments that a call of
\* the run had rebuilt from descriptors listed out of segment order.
C15_Witness ==
    /\ args.op = "load_feature_files"
    /\ loader.pc = "returned"
    /\ ~loader.found
    /\ loader.before[CallFile] # StaleEntry
    /\ Cardinality(SegmentIds(result.table)) = 2
    /\ args.folder["preictal"][1].segment > args.folder["preictal"][2].segment

\* C16: every load_feature_files call that load_data_frames makes for the
\* test class has sliding_frames false, every call it makes for the
\* preictal or the interictal class has the caller's sliding_frames, and
\* no cache file of sliding test frames is ever written.
C16_TestNeverSliding ==
    (args.op = "load_data_frames" /\ loader.call # NoCall) =>
        /\ loader.call.class_name = "test" => ~loader.call.sliding_frames
        /\ loader.call.class_name \in {"preictal", "interictal"} =>
              loader.call.sliding_frames = args.sliding_frames
        /\ \A l \in FrameLengths :
              cache[generate_filename("test", l, TRUE)] = (IF args.cached THEN StaleEntry ELSE NoEntry)

\* load_data_frames, called with sliding_frames true, has rebuilt the test
\* table.
C16_Witness ==
    /\ args.op = "load_data_frames"
    /\ args.sliding_frames
    /\ loader.call.class_name = "test"
    /\ loader.pc = "returned"
    /\ loader.found
    /\ Len(result.table) >= 2

\* The rows of segment s of table t, in table order.
SegmentPart(t, s) == SelectSeq(t, LAMBDA row : row.segment = s)

\* Frame table frames stands under segment name s in table t: as many rows,
\* numbered from 0 in order, holding the values of the frames (a NaN of the
\* frames may have been interpolated).
StandsUnder(t, s, frames) ==
    LET part == SegmentPart(t, s)
    IN  /\ Len(part) = Len(frames)
        /\ \A m \in DOMAIN part :
              /\ part[m].frame = m - 1
              /\ \A c \in DOMAIN frames[m] :
                    ~isnan(frames[m][c]) => part[m].values[c] = frames[m][c]

\* C17: when rebuild_features has loaded through the pool (processes > 1)
\* and returns, then whatever the order in which the workers finished, the
\* frames under the segment name of each descriptor are those the load
\* function makes of that descriptor's file group.
C17_PoolKeepsOrder ==
    (args.op = "rebuild_features" /\ args.processes > 1 /\ loader.pc = "returned") =>
        \A j \in DOMAIN args.feature_file_dicts :
            StandsUnder(result.table, args.feature_file_dicts[j].segment,
                        load(args.feature_file_dicts[j].files, args.frame_length,
                             args.sliding_frames).frames)

\* The pool finished the second task first, the file groups of the two
\* descriptors differing in their values and in their numbers of frames.
C17_Witness ==
    /\ args.op = "rebuild_features"
    /\ args.processes > 1
    /\ loader.pc = "returned"
    /\ Len(loader.loaded) = 2
    /\ loader.loaded[1] = 2
    /\ args.feature_file_dicts[1].files = Windows(<<Num(0), Num(60)>>)
    /\ args.feature_file_dicts[2].files = Windows(<<Inf>>)
    /\ Len(result.table) = 3

\* The table rebuild_features has concatenated and sorted in a direct call,
\* before any repair.
ConcatenatedFrame ==
    SortLevelSegment(ConcatKeys(
        [j \in DOMAIN args.feature_file_dicts |-> args.feature_file_dicts[j].segment],
        [j \in DOMAIN args.feature_file_dicts |->
            load(args.feature_file_dicts[j].files, args.frame_length, args.sliding_frames).frames]))

\* Some value of table t is of one of the kinds given.
HasKind(t, kinds) == \E i \in DOMAIN t : \E c \in DOMAIN t[i].values : t[i].values[c].kind \in kinds

\* Table t is table raw repaired by linear interpolation down the rows:
\* the same rows, every value that is not NaN kept, and every NaN that has
\* finite values before and after it in its column replaced by the value
\* on the line between the nearest two.
LinearlyRepaired(t, raw) ==
    /\ Len(t) = Len(raw)
    /\ \A i \in DOMAIN raw :
          /\ t[i].segment = raw[i].segment
          /\ t[i].frame = raw[i].frame
          /\ \A c \in DOMAIN raw[i].values :
                LET before == {p \in 1..(i - 1) : ~isnan(raw[p].values[c])}
                    after == {q \in (i + 1)..Len(raw) : ~isnan(raw[q].values[c])}
                IN  IF ~isnan(raw[i].values[c])
                    THEN t[i].values[c] = raw[i].values[c]
                    ELSE (/\ before # {}
                          /\ after # {}
                          /\ raw[Max(before)].values[c].kind = "num"
                          /\ raw[Min(after)].values[c].kind = "num") =>
                             /\ t[i].values[c].kind = "num"
                             /\ (t[i].values[c].v - raw[Max(before)].values[c].v) * (Min(after) - Max(before))
                                   = (raw[Min(after)].values[c].v - raw[Max(before)].values[c].v)
                                        * (i - Max(before))

\* C18 as stated: a direct rebuild_features call that returns has logged
\* the warning and returns the table repaired by linear interpolation when
\* some concatenated value is NaN or infinite, and returns the table as
\* concatenated, without a warning, when every value is finite.
C18_NonFiniteRepaired ==
    (args.op = "rebuild_features" /\ loader.pc = "returned") =>
        IF HasKind(ConcatenatedFrame, {"nan", "inf"})
        THEN loader.warned /\ LinearlyRepaired(result.table, ConcatenatedFrame)
        ELSE ~loader.warned /\ result.table = ConcatenatedFrame

\* C18 amended: the same with NaN in place of non-finite: the warning and
\* the repair when some concatenated value is NaN; the table as
\* concatenated, infinities included, and no warning when none is.
C18_NaNRepaired ==
    (args.op = "rebuild_features" /\ loader.pc = "returned") =>
        IF HasKind(ConcatenatedFrame, {"nan"})
        THEN loader.warned /\ LinearlyRepaired(result.table, ConcatenatedFrame)
        ELSE ~loader.warned /\ result.table = ConcatenatedFrame

\* A NaN between the values 0 and 60 of two segments was replaced by 30.
C18_Witness ==
    /\ args.op = "rebuild_features"
    /\ loader.pc = "returned"
    /\ loader.warned
    /\ Len(result.table) = 3
    /\ result.table[1].values = <<Num(0)>>
    /\ result.table[2].values = <<Num(30)>>
    /\ result.table[3].values = <<Num(60)>>

\* The number of segments of table t whose label (that of their first row)
\* is c.
ClassSegments(t, c) ==
    Cardinality({j \in DOMAIN GroupBySegmentFirst(t) : GroupBySegmentFirst(t)[j].Preictal = c})

\* A SegmentCrossValidator(dataframe, n_folds=K) call has been made.
Constructed == args.op = "SegmentCrossValidator" /\ cv.state # "none"

\* C19 as stated: constructing a validator with n_folds = K (here K >= 2)
\* on a table with segments of both classes, one of the classes having
\* fewer than K segments, fails: no validator, no fold.
C19_SmallClassFails ==
    (/\ Constructed
     /\ args.n_folds >= 2
     /\ ClassSegments(args.dataframe, 0) >= 1
     /\ ClassSegments(args.dataframe, 1) >= 1
     /\ \E c \in {0, 1} : ClassSegments(args.dataframe, c) < args.n_folds) =>
        cv.state = "failed" /\ cv.folds = <<>>

\* C19 amended: construction with n_folds = K fails, leaving no validator
\* and no fold, when the table has fewer than K segments in all; when K is
\* at least 2 and at most the number of segments, construction succeeds
\* even if a class has fewer than K segments, and an iteration yields K
\* folds.
C19_FewSegmentsFail ==
    Constructed =>
        LET n_segments == Cardinality(SegmentIds(args.dataframe))
        IN  /\ args.n_folds > n_segments => cv.state = "failed" /\ cv.folds = <<>>
            /\ (args.n_folds >= 2 /\ args.n_folds <= n_segments) =>
                  /\ cv.state \in {"ready", "exhausted"}
                  /\ cv.state = "exhausted" => Len(cv.folds) = args.n_folds

\* Construction with n_folds = 3 failed on a table of two segments, one of
\* each class.
C19_Witness ==
    /\ Constructed
    /\ cv.state = "failed"
    /\ args.n_folds = 3
    /\ ClassSegments(args.dataframe, 0) = 1
    /\ ClassSegments(args.dataframe, 1) = 1

\* The load function fails on some file group of the call in progress or
\* last made.
SomeLoadFails ==
    \E j \in DOMAIN args.folder[loader.call.class_name] :
        load(args.folder[loader.call.class_name][j].files, loader.call.frame_length,
             loader.call.sliding_frames).status # "ok"

\* C20: a load_feature_files call that rebuilds (its cache file missing or
\* rebuild_data set) and in which the load function fails on a segment,
\* loading serially or through the pool, ends by raising the error: no
\* table is returned, the load function has been called at most once per
\* file group, and every cache file, the call's own included, is as it was
\* when the call began.
C20_FailedRebuildLeavesCache ==
    (/\ CallEnded
     /\ loader.call.rebuild_data \/ loader.before[CallFile] = NoEntry
     /\ SomeLoadFails) =>
        /\ loader.pc = "raised"
        /\ result.status = "error"
        /\ result.table = <<>>
        /\ Cardinality(Range(loader.loaded)) = Len(loader.loaded)
        /\ cache = loader.before

\* A pooled rebuild told to replace an existing cache file raised after
\* the load function had run on a file group, and the file is still the
\* one the run began with.
C20_Witness ==
    /\ CallEnded
    /\ loader.pc = "raised"
    /\ loader.call.processes > 1
    /\ loader.call.rebuild_data
    /\ SomeLoadFails
    /\ Len(loader.loaded) >= 1
    /\ cache[CallFile] = StaleEntry

\* The cache file of two invocations running at once.
SharedFile ==
    generate_filename(args.call.class_name, args.call.frame_length, args.call.sliding_frames)

\* C21: nothing excludes two load_feature_files invocations with one cache
\* file from each other: while one is between its check, which found the
\* file missing, and its write, the other's check can still run and also
\* decides to rebuild; and whenever writes have been made, the file holds
\* the table of the latest one, so that of two writers the later replaces
\* what the earlier wrote.
C21_InvocationsRace ==
    args.op = "concurrent load_feature_files" =>
        /\ \A p \in Invokers : \A q \in Invokers \ {p} :
              (/\ invocations[p].pc \in {"rebuilding", "built"}
               /\ invocations[p].absent
               /\ invocations[q].pc = "idle"
               /\ cache[SharedFile] = NoEntry) =>
                  ENABLED (InvocationChecks(q) /\ invocations'[q].pc = "rebuilding"
                              /\ invocations'[q].absent)
        /\ \A p \in Invokers :
              (/\ invocations[p].order > 0
               /\ \A q \in Invokers : invocations[q].order <= invocations[p].order) =>
                  cache[SharedFile] = to_pickle(invocations[p].table)
        /\ \A p \in Invokers : \A q \in Invokers \ {p} :
              invocations[p].order > 0 => invocations[p].order # invocations[q].order

\* Both invocations found the cache file missing, both rebuilt, from
\* feature folders that give different tables, and both wrote the file,
\* which holds the table of the second writer and not that of the first.
C21_Witness ==
    /\ args.op = "concurrent load_feature_files"
    /\ \A p \in Invokers : invocations[p].absent /\ invocations[p].pc = "returned"
    /\ \E p \in Invokers : \E q \in Invokers :
          /\ invocations[p].order = 1
          /\ invocations[q].order = 2
          /\ invocations[p].table # invocations[q].table
          /\ cache[SharedFile] = to_pickle(invocations[q].table)
          /\ cache[SharedFile] # to_pickle(invocations[p].table)

\* The 0-based positions in table t of the rows whose segment is in segs.
PositionsOf(t, segs) == {i - 1 : i \in {r \in DOMAIN t : t[r].segment \in segs}}

\* The segment names the wrapped generator puts at the 0-based positions
\* idx of the per-segment table of validator val.
AssignedSegments(val, idx) == {val.segments[idx[j] + 1].segment : j \in DOMAIN idx}

\* C22: in every fold a SegmentCrossValidator has yielded, the training
\* indices are, each once, the positions of all rows of the segments the
\* wrapped generator assigned to the training side, the held-out indices
\* those of the segments it held out, and the two together are every row
\* position 0..len(table)-1 exactly once.
C22_FoldRowsOfSegments ==
    \A f \in DOMAIN cv.folds :
        LET fold == cv.folds[f]
            t == cv.all_segments
        IN  /\ Range(fold.train) = PositionsOf(t, AssignedSegments(cv, KFoldTrain(cv.cv, f - 1)))
            /\ Range(fold.test) = PositionsOf(t, AssignedSegments(cv, KFoldTest(cv.cv, f - 1)))
            /\ Cardinality(Range(fold.train)) = Len(fold.train)
            /\ Cardinality(Range(fold.test)) = Len(fold.test)
            /\ Range(fold.train) \cup Range(fold.test) = 0..(Len(t) - 1)
            /\ Len(fold.train) + Len(fold.test) = Len(t)

\* A fold with rows on both sides was yielded for a table in which the
\* rows of one segment lie on either side of a row of another.
C22_Witness ==
    /\ \E f \in DOMAIN cv.folds : Len(cv.folds[f].train) >= 1 /\ Len(cv.folds[f].test) >= 1
    /\ \E i \in DOMAIN cv.all_segments : \E j \in DOMAIN cv.all_segments :
          /\ i + 1 < j
          /\ cv.all_segments[i].segment = cv.all_segments[j].segment
          /\ cv.all_segments[i + 1].segment # cv.all_segments[i].segment

\* The folds of validator val that hold out row position p.
FoldsHoldingOutRow(val, p) == {f \in DOMAIN val.folds : p \in Range(val.folds[f].test)}

\* The folds of validator val that hold out a row of segment s.
FoldsHoldingOutSegment(val, s) ==
    {f \in DOMAIN val.folds : s \in SegmentsAt(val.all_segments, val.folds[f].test)}

\* C23: the held-out sets of the folds one validator yields are pairwise
\* disjoint, and once all K folds are yielded every row position and every
\* segment has been held out in exactly one fold.
C23_HeldOutPartition ==
    /\ \A p \in 0..(Len(cv.all_segments) - 1) : Cardinality(FoldsHoldingOutRow(cv, p)) <= 1
    /\ \A s \in SegmentIds(cv.all_segments) : Cardinality(FoldsHoldingOutSegment(cv, s)) <= 1
    /\ cv.state = "exhausted" =>
          /\ Len(cv.folds) = args.n_folds
          /\ \A p \in 0..(Len(cv.all_segments) - 1) : Cardinality(FoldsHoldingOutRow(cv, p)) = 1
          /\ \A s \in SegmentIds(cv.all_segments) : Cardinality(FoldsHoldingOutSegment(cv, s)) = 1

\* All of three or more folds were yielded for a table of several rows a
\* segment, each fold holding out at least one segment.
C23_Witness ==
    /\ cv.state = "exhausted"
    /\ Len(cv.folds) >= 3
    /\ Len(cv.all_segments) > Len(cv.segments)
    /\ \A f \in DOMAIN cv.folds : Len(cv.folds[f].test) >= 1

\* The label of the first row of table t that belongs to segment s.
FirstLabel(t, s) == t[CHOOSE i \in DOMAIN t : t[i].segment = s /\ \A j \in 1..(i - 1) : t[j].segment # s].Preictal

\* C24: the per-segment table of a constructed validator has exactly one
\* entry for each distinct segment id of the input, labelled with the label
\* of the first input row of that segment; rows of differing labels in one
\* segment are no error: construction fails only for a fold count the
\* wrapped generator rejects.
C24_FirstLabelPerSegment ==
    args.op = "SegmentCrossValidator" =>
        /\ cv.state \in {"ready", "exhausted"} =>
              /\ Len(cv.segments) = Cardinality(SegmentIds(args.dataframe))
              /\ \A s \in SegmentIds(args.dataframe) :
                    \E j \in DOMAIN cv.segments :
                        /\ cv.segments[j].segment = s
                        /\ cv.segments[j].Preictal = FirstLabel(args.dataframe, s)
        /\ cv.state = "failed" =>
              \/ args.n_folds <= 1
              \/ args.n_folds > Cardinality(SegmentIds(args.dataframe))

\* A validator stands on a table in which a segment's first row and a later
\* row of it are labelled differently.
C24_Witness ==
    /\ args.op = "SegmentCrossValidator"
    /\ cv.state = "ready"
    /\ Len(cv.segments) >= 2
    /\ \E i \in DOMAIN args.dataframe : \E j \in DOMAIN args.dataframe :
          /\ i < j
          /\ args.dataframe[i].segment = args.dataframe[j].segment
          /\ args.dataframe[i].Preictal # args.dataframe[j].Preictal
          /\ \A h \in 1..(i - 1) : args.dataframe[h].segment # args.dataframe[i].segment

SameLabels(t, u) == Len(t) = Len(u) /\ \A r \in DOMAIN u : t[r].Preictal = u[r].Preictal

\* C25 as stated (here for two tables of two rows each): scale returns
\* tables whose 'Preictal' column is that of the tables passed in, for
\* every combination of center and scale; with
\* inplace=False the tables passed in are left as they were and the tables
\* returned are new objects, none of them an object passed in; with
\* inplace=True the tables returned are the objects passed in.
C25_ScaleFrameEffect ==
    (args.op = "scale" /\ result # NoResult /\ result.status = "ok"
        /\ Len(args.dataframes) = 2 /\ \A i \in 1..2 : Len(args.dataframes[i]) = 2) =>
        LET n == Len(args.dataframes)
        IN  /\ \A i \in 1..n :
                  /\ SameLabels(result.returned[i].table, args.dataframes[i])
                  /\ SameLabels(result.inputs[i], args.dataframes[i])
            /\ ~args.inplace =>
                  /\ result.inputs = args.dataframes
                  /\ \A i \in 1..n : result.returned[i].id \notin 1..n
            /\ args.inplace => \A i \in 1..n : result.returned[i].id = i

\* The table invocation p would build from the feature files of its own
\* folder.
OwnTable(p) ==
    LET dicts == find_grouped_feature_files(args.folders[p], args.call.class_name)
    IN  RebuildOutcome(dicts,
                       load_files_serial([j \in DOMAIN dicts |-> dicts[j].files],
                                         args.call.frame_length, args.call.sliding_frames)).table

\* C28: the cache entry a load_feature_files call consults is that of its
\* output folder, class_name, frame_length and sliding_frames and of nothing
\* else: a call with rebuild_data=False that finds the entry returns the
\* table cached there, for either processes value and whatever its own
\* feature files would give, without finding or loading any file; in two
\* invocations on different feature folders, the one that finds the entry
\* returns what the run began with or what the other invocation cached.
C28_EntryOfFourValues ==
    /\ (args.op = "load_feature_files" /\ loader.pc # "idle"
           /\ ~loader.call.rebuild_data /\ loader.before[CallFile] # NoEntry) =>
          /\ loader.pc = "returned"
          /\ ~loader.found
          /\ loader.loaded = <<>>
          /\ result.status = "ok"
          /\ result.table = CacheRead(loader.before[CallFile])
          /\ cache = loader.before
    /\ args.op = "concurrent load_feature_files" =>
          \A q \in Invokers :
              (invocations[q].pc = "returned" /\ invocations[q].order = 0) =>
                  /\ ~args.rebuild_data[q]
                  /\ ~invocations[q].absent
                  /\ \/ args.cached /\ invocations[q].table = CacheRead(StaleEntry)
                     \/ \E p \in Invokers \ {q} :
                           /\ invocations[p].order > 0
                           /\ invocations[q].table = CacheRead(to_pickle(invocations[p].table))

\* An invocation returned the table another invocation had built from a
\* different feature folder and cached, not the table its own feature
\* files give.
C28_Witness ==
    /\ args.op = "concurrent load_feature_files"
    /\ ~args.cached
    /\ \E p \in Invokers : \E q \in Invokers \ {p} :
          /\ args.folders[p] # args.folders[q]
          /\ invocations[p].order = 1
          /\ invocations[q].pc = "returned"
          /\ invocations[q].order = 0
          /\ invocations[q].table = CacheRead(to_pickle(invocations[p].table))
          /\ find_grouped_feature_files(args.folders[q], args.call.class_name) # <<>>
          /\ invocations[q].table # OwnTable(q)

====
